---- MODULE Spec2Model ----
(***************************************************************************)
(* The upload relay of NexaVid-Backend: POST /api/upload in its four       *)
(* versions of server/index.js                                             *)
(*   "stream"   src/index.js:241-399          Busboy, with axios timeouts  *)
(*   "streamNT" src/unnamed/part_000:240-397  Busboy, no axios timeouts    *)
(*   "disk"     src/unnamed/part_000:722-854  multer disk storage          *)
(*   "memory"   src/unnamed/part_001:255-363  multer memory storage        *)
(* One server process runs one version; requests are handled concurrently  *)
(* on one event loop, so every action below is one run-to-completion step  *)
(* of a callback or of an async function between two awaits.               *)
(***************************************************************************)
EXTENDS Integers, Sequences, FiniteSets, TLC

\* ---------------------------------------------------------------- bounds
MaxLen == 3
NumSuffixes == 2

\* two requests in flight at once
Reqs == {1, 2}
Lens == 1..MaxLen
Suffixes == 1..NumSuffixes

\* ------------------------------------------------------ program constants
\* highWaterMark: 2 * 1024 * 1024, counted in chunks of 1 MB
HighWaterMark == 2
StreamNegotiationTimeout == 60000
StreamRelayTimeout == 300000
DiskNegotiationTimeout == 60000
DiskRelayTimeout == 600000

Variants == {"stream", "streamNT", "disk", "memory"}
Streaming == {"stream", "streamNT"}
Multer == {"disk", "memory"}

\* timeout option of the axios.get of file/ul (0: axios waits forever)
NegotiationTimeout(v) ==
  CASE v = "stream" -> StreamNegotiationTimeout
    [] v = "disk" -> DiskNegotiationTimeout
    [] OTHER -> 0

\* timeout option of the axios.post to the upload url
RelayTimeout(v) ==
  CASE v = "stream" -> StreamRelayTimeout
    [] v = "disk" -> DiskRelayTimeout
    [] OTHER -> 0

\* server.timeout: the idle time after which the server destroys a client
\* socket (0: the version sets none)
ServerTimeoutSet == 300000
ServerTimeout(v) ==
  CASE v \in {"stream", "disk"} -> ServerTimeoutSet
    [] OTHER -> 0

\* the relay's timeout falls before the idle timeout of the client's socket:
\* the socket has been idle since the last byte of the body, which is before
\* the relay was issued, so with equal bounds the socket's timeout is first
RelayTimerFirst(v) ==
  ServerTimeout(v) = 0 \/ (RelayTimeout(v) > 0 /\ RelayTimeout(v) < ServerTimeout(v))

\* ------------------------------------------------------------ the client
\* A multipart body is a sequence of file parts: "video" is a part under the
\* field videoFile, "other" a part under any other field.
PartSeqs ==
  { <<>>, <<"video">>, <<"other">>, <<"other", "video">>,
    <<"video", "other">>, <<"video", "video">> }

\* the file name the client declares for its part
ClientName(r) == IF r = 1 THEN "a.mp4" ELSE "b.mp4"

\* the Content-Type the client declares for its part
ClientContentType(r) == IF r = 1 THEN "video/mp4" ELSE "video/webm"

\* the bytes of the file a request carries, named by their owner
ClientBytes(r) == IF r = 1 THEN "bytes of a" ELSE "bytes of b"

\* ---------------------------------------------------------- the provider
ProviderMsgs == {"", "quota exceeded"}
HttpErrorStatuses == {403, 504}

\* the one-time upload url the provider hands out to the negotiation of r
UrlFor(r) == IF r = 1 THEN "https://ul/1" ELSE "https://ul/2"
\* the identifier the provider gives the file stored by the relay of r
IdFor(r) == IF r = 1 THEN "id1" ELSE "id2"
\* result.url of the stored file
DownloadUrlFor(r) == IF r = 1 THEN "https://dl/1" ELSE "https://dl/2"
\* result.size, result.content_type and result.sha256 of the stored file
SizeFor(r) == IF r = 1 THEN "size1" ELSE "size2"
ContentTypeFor(r) == IF r = 1 THEN "video/mp4" ELSE "video/webm"
Sha256For(r) == IF r = 1 THEN "sha1" ELSE "sha2"

\* envelopes {status, msg, result} of file/ul
InitEnvelopes ==
  { [status |-> 200, msg |-> "", url |-> "present"],
    [status |-> 200, msg |-> "", url |-> "absent"],
    [status |-> 403, msg |-> "quota exceeded", url |-> "absent"],
    [status |-> 403, msg |-> "", url |-> "absent"] }

\* envelopes of the upload host; id is "absent" when result.id is missing
UploadEnvelopes ==
  { [status |-> 200, msg |-> "", id |-> "present"],
    [status |-> 200, msg |-> "", id |-> "absent"],
    [status |-> 500, msg |-> "quota exceeded", id |-> "absent"],
    [status |-> 500, msg |-> "", id |-> "absent"] }

\* --------------------------------------------------------------- errors
\* A JavaScript error as the catch blocks read it: error.code,
\* error.response.status (0: no error.response), error.response.data.msg,
\* error.message and axios.isCancel(error).
NoError ==
  [code |-> "", status |-> 0, dataMsg |-> "", message |-> <<>>, isCancel |-> FALSE]

\* throw new Error(msg)
PlainError(m) ==
  [code |-> "", status |-> 0, dataMsg |-> "", message |-> <<m>>, isCancel |-> FALSE]

\* axios timeout: code ECONNABORTED, no response
TimeoutError(ms) ==
  [code |-> "ECONNABORTED", status |-> 0, dataMsg |-> "",
   message |-> <<"timeout exceeded">>, isCancel |-> FALSE]

\* axios error for a response outside 2xx
HttpError(s, m) ==
  [code |-> "ERR_BAD_RESPONSE", status |-> s, dataMsg |-> m,
   message |-> <<"Request failed with status code">>, isCancel |-> FALSE]

\* axios error for a broken connection
NetworkError ==
  [code |-> "ECONNRESET", status |-> 0, dataMsg |-> "",
   message |-> <<"socket hang up">>, isCancel |-> FALSE]

\* what res.json throws once the headers are sent
HeadersSentError ==
  [code |-> "ERR_HTTP_HEADERS_SENT", status |-> 0, dataMsg |-> "",
   message |-> <<"Cannot set headers after they are sent to the client">>,
   isCancel |-> FALSE]

\* the errors axios can reject a call with when the provider answers
AxiosErrors ==
  {HttpError(s, m) : s \in HttpErrorStatuses, m \in ProviderMsgs} \cup {NetworkError}

\* a || b of JavaScript on strings
OrElse(a, b) == IF a = "" THEN b ELSE a

\* ---------------------------------------------------------------- state
VARIABLES
  variant,        \* the version of server/index.js the process runs
  active,         \* the requests that clients send
  pc,             \* where each request's handler is suspended
  multipart,      \* the request's Content-Type is multipart/form-data
  parts,          \* the file parts of the request body
  fileLen,        \* the length of each file part, in chunks
  connected,      \* the client's connection is open
  socketDestroyed, \* the server has destroyed the client's socket as idle
  partIdx,        \* busboy: parts whose header has been parsed
  pushed,         \* busboy: chunks of the current part pushed to its stream
  buffered,       \* unread chunks held by the stream stored in fileStream
  relayed,        \* chunks of fileStream the relay has read
  fileStream,     \* let fileStream: index of the part stored, 0 undefined
  fileName,       \* let fileName / originalFileName / filename
  fileErrored,    \* the file stream has emitted "error"
  tempFilePath,   \* req.file.path as the suffix of the name, 0 when none
  disk,           \* /tmp: the contents of each path, "" when absent
  pending,        \* the outstanding axios call: "none", "answering", "silent"
  negCalls,       \* axios.get(file/ul) calls issued
  negResult,      \* "none", "ok", "failed"
  negEnvelope,    \* initResponse.data as the provider returned it
  relayCalls,     \* axios.post(uploadUrl) calls issued
  relaySent,      \* what the relay posts: filename, contentType, bytes, url
  relayOutcome,   \* "none", "inflight", "stored", "rejected", "failed"
  discInRelay,    \* the client disconnected while the relay was in flight
  caught,         \* the error the catch block received
  failedIn,       \* the step that threw: "", "negotiation", "relay", "respond"
  responses,      \* the responses written to the client, in order
  unlinkAttempts, \* fsPromises.unlink calls issued
  unlinkResult,   \* "none", "deleted", "failed"
  deleted,        \* the contents of the file the unlink of r removed, "" if none
  endpoint,       \* the proxy route a client has called, "none" before
  proxyPc,        \* where that route's handler is: "idle", "wait", "done"
  param,          \* the value the route validates (ticket, url) is present
  proxyCalls,     \* axios.get calls the route's handler has issued
  envelope,       \* response.data as the provider returned it
  proxyError,     \* the error the route's catch block received
  proxyResponses  \* the responses the route's handler has written

inputVars == <<multipart, parts, fileLen>>
parserVars == <<partIdx, pushed, fileStream, fileName>>
flowVars == <<buffered, relayed>>
fileVars == <<tempFilePath, disk>>
unlinkVars == <<unlinkAttempts, unlinkResult, deleted>>
negVars == <<negCalls, negResult, negEnvelope>>
relayVars == <<relayCalls, relaySent, relayOutcome>>
errVars == <<caught, failedIn>>
envVars == <<connected, discInRelay, fileErrored, socketDestroyed>>
proxyVars ==
  <<endpoint, proxyPc, param, proxyCalls, envelope, proxyError, proxyResponses>>
vars ==
  <<variant, active, pc, parts, fileLen, connected, partIdx, pushed, buffered, relayed,
    fileStream, fileName, fileErrored, tempFilePath, disk, pending, negCalls,
    negResult, relayCalls, relaySent, relayOutcome, discInRelay, caught,
    failedIn, responses, unlinkAttempts, unlinkResult, multipart, deleted,
    endpoint, proxyPc, param, proxyCalls, envelope, proxyError, proxyResponses,
    negEnvelope, socketDestroyed>>

NoRelay == [filename |-> "", contentType |-> "", bytes |-> "", url |-> ""]

\* no answer to the negotiation received yet
NoInitEnvelope == [status |-> 0, msg |-> "", url |-> "none"]

\* no answer of the provider received yet
NoEnvelope == [status |-> 0, msg |-> "", result |-> "none"]

\* the server has started and no request has arrived
Started ==
  /\ variant \in Variants
  /\ pc = [r \in Reqs |-> "idle"]
  /\ parts = [r \in Reqs |-> <<>>]
  /\ fileLen = [r \in Reqs |-> 1]
  /\ connected = [r \in Reqs |-> TRUE]
  /\ socketDestroyed = [r \in Reqs |-> FALSE]
  /\ partIdx = [r \in Reqs |-> 0]
  /\ pushed = [r \in Reqs |-> 0]
  /\ buffered = [r \in Reqs |-> 0]
  /\ relayed = [r \in Reqs |-> 0]
  /\ fileStream = [r \in Reqs |-> 0]
  /\ fileName = [r \in Reqs |-> "unknown_file"]
  /\ fileErrored = [r \in Reqs |-> FALSE]
  /\ tempFilePath = [r \in Reqs |-> 0]
  /\ disk = [s \in Suffixes |-> ""]
  /\ pending = [r \in Reqs |-> "none"]
  /\ negCalls = [r \in Reqs |-> 0]
  /\ negResult = [r \in Reqs |-> "none"]
  /\ negEnvelope = [r \in Reqs |-> NoInitEnvelope]
  /\ relayCalls = [r \in Reqs |-> 0]
  /\ relaySent = [r \in Reqs |-> NoRelay]
  /\ relayOutcome = [r \in Reqs |-> "none"]
  /\ discInRelay = [r \in Reqs |-> FALSE]
  /\ caught = [r \in Reqs |-> NoError]
  /\ failedIn = [r \in Reqs |-> ""]
  /\ responses = [r \in Reqs |-> <<>>]
  /\ unlinkAttempts = [r \in Reqs |-> 0]
  /\ unlinkResult = [r \in Reqs |-> "none"]
  /\ multipart = [r \in Reqs |-> TRUE]
  /\ deleted = [r \in Reqs |-> ""]
  /\ endpoint = "none"
  /\ proxyPc = "idle"
  /\ param = TRUE
  /\ proxyCalls = 0
  /\ envelope = NoEnvelope
  /\ proxyError = NoError
  /\ proxyResponses = <<>>

\* one client uploads
Init == Started /\ active = {1}

\* two clients upload at the same time
InitConcurrent == Started /\ active = Reqs

\* no client uploads; one client calls a proxy route
InitProxy == Started /\ active = {}

\* the bodies the clients send: any of PartSeqs with files of any length, or a
\* body that is not multipart, when one client uploads; two concurrent clients
\* send multipart bodies of at most one part each, of HighWaterMark chunks
MultipartOffered == IF active = Reqs THEN {TRUE} ELSE BOOLEAN
PartsOffered == IF active = Reqs THEN {<<>>, <<"video">>, <<"other">>} ELSE PartSeqs
LensOffered ==
  IF variant \in Multer THEN {1}
  ELSE IF active = Reqs THEN {HighWaterMark} ELSE Lens

\* ------------------------------------------------------------ responses
NoData ==
  [fileId |-> "", fileName |-> "", streamUrl |-> <<>>, downloadUrl |-> "",
   size |-> "", contentType |-> "", sha256 |-> ""]

\* res.status(status).json({success, message, data})
Json(status, success, message, data) ==
  [status |-> status, kind |-> "json", success |-> success,
   message |-> message, data |-> data]

\* the page Express's default error handler sends for an error passed to next()
DefaultErrorPage ==
  [status |-> 500, kind |-> "html", success |-> FALSE,
   message |-> <<"MulterError: Unexpected field", "stack">>, data |-> NoData]

\* Busboy({ headers: req.headers }) throws on a Content-Type that is not
\* multipart; the handler is synchronous there, so Express passes the error to
\* its default error handler
BusboyErrorPage ==
  [status |-> 500, kind |-> "html", success |-> FALSE,
   message |-> <<"Error: Unsupported content type", "stack">>, data |-> NoData]

StatusText(s) ==
  CASE s = 403 -> "403"
    [] s = 504 -> "504"
    [] OTHER -> "other"

\* error.response?.data?.msg || error.message
UpstreamMessage(err) == IF err.dataMsg # "" THEN <<err.dataMsg>> ELSE err.message

\* res.headersSent read where it is never set
HeadersSentNever(r) == FALSE

\* res.headersSent
HeadersSent(r) == responses[r] # <<>>

\* res.status(..).json(..): Express refuses to write a second response (it
\* throws ERR_HTTP_HEADERS_SENT); the value is the responses written after it
ResJson(r, resp) ==
  IF HeadersSent(r) THEN responses[r] ELSE Append(responses[r], resp)

\* a success response whose streamUrl is the provider's url
SuccessResponseProviderUrl(result) ==
  Json(200, TRUE, <<"Video uploaded successfully!">>,
       [fileId |-> result.id, fileName |-> result.name,
        streamUrl |-> <<result.url>>,
        downloadUrl |-> result.url, size |-> result.size,
        contentType |-> result.content_type, sha256 |-> result.sha256])

\* the success response of the Busboy versions
SuccessResponse(result) ==
  Json(200, TRUE, <<"Video uploaded successfully!">>,
       [fileId |-> result.id, fileName |-> result.name,
        streamUrl |-> <<"https://streamtape.com/e/", result.id>>,
        downloadUrl |-> result.url, size |-> result.size,
        contentType |-> result.content_type, sha256 |-> result.sha256])

\* a success response that leaves the checksum out
DiskSuccessResponseNoSha(result) ==
  Json(200, TRUE, <<"Video uploaded successfully!">>,
       [fileId |-> result.id, fileName |-> result.name,
        streamUrl |-> <<"https://streamtape.com/e/", result.id>>,
        downloadUrl |-> result.url, size |-> result.size,
        contentType |-> result.content_type, sha256 |-> ""])

\* the success response of the disk version
DiskSuccessResponse(result) ==
  Json(200, TRUE, <<"Video uploaded successfully!">>,
       [fileId |-> result.id, fileName |-> result.name,
        streamUrl |-> <<"https://streamtape.com/e/", result.id>>,
        downloadUrl |-> result.url, size |-> result.size,
        contentType |-> result.content_type, sha256 |-> result.sha256])

\* the success response of the in-memory version
MemorySuccessResponse(result) ==
  Json(200, TRUE, <<"Video uploaded successfully!">>,
       [fileId |-> result.id, fileName |-> result.name,
        streamUrl |-> <<"https://streamtape.com/e/", result.id>>,
        downloadUrl |-> result.url, size |-> result.size,
        contentType |-> result.content_type, sha256 |-> result.sha256])

\* the success response version v sends for the provider's result
SuccessResponseOf(v, result) ==
  CASE v = "disk" -> DiskSuccessResponse(result)
    [] v = "memory" -> MemorySuccessResponse(result)
    [] OTHER -> SuccessResponse(result)

\* a catch block that answers every error as a timeout
CatchResponseAlways504(v, err) ==
  Json(504, FALSE, <<"Upload to Streamtape timed out.">>, NoData)

\* the failure response the catch block of version v builds for err
CatchResponse(v, err) ==
  CASE v = "stream" ->
         IF err.isCancel
           THEN Json(504, FALSE, <<"Upload cancelled by timeout.">>, NoData)
           ELSE IF err.code = "ECONNABORTED"
             THEN Json(504, FALSE, <<"Upload timed out after a long wait.">>, NoData)
             ELSE Json(500, FALSE,
                       <<"Failed to upload video: ">> \o UpstreamMessage(err), NoData)
    [] v = "disk" ->
         IF err.isCancel \/ err.code = "ECONNABORTED"
           THEN Json(504, FALSE, <<"Upload to Streamtape timed out.">>, NoData)
           ELSE IF err.status # 0
             THEN Json(err.status, FALSE,
                       <<"Streamtape API error: ", StatusText(err.status), " - ">>
                         \o UpstreamMessage(err), NoData)
             ELSE Json(500, FALSE,
                       <<"Server error during upload: ">> \o err.message, NoData)
    [] OTHER ->
         Json(500, FALSE, <<"Failed to upload video: ">> \o UpstreamMessage(err), NoData)

\* the catch blocks of the Busboy versions write only if (!res.headersSent)
CatchGuarded(v) == v \in Streaming

\* a catch block that logs the error and writes nothing
AfterCatchLogOnly(r, err) == responses[r]

\* the responses of r after its catch block has run on err
AfterCatch(r, err) ==
  IF CatchGuarded(variant) /\ HeadersSent(r)
    THEN responses[r]
    ELSE ResJson(r, CatchResponse(variant, err))

\* the unlink at the end of the try block instead of in finally
AfterTryNoFinally(r) ==
  IF variant = "disk" /\ tempFilePath[r] # 0 /\ caught'[r] = NoError
    THEN "unlinkWait" ELSE "done"

\* where the handler goes once try/catch has ended: the disk version awaits
\* fsPromises.unlink(tempFilePath) in its finally block
AfterTry(r) == IF variant = "disk" /\ tempFilePath[r] # 0 THEN "unlinkWait" ELSE "done"

\* an envelope error that drops the provider's text
NegotiationErrorDefault(env) == PlainError("Failed to get upload URL from Streamtape.")

\* throw new Error(initResponse.data.msg || "Failed to get upload URL from
\* Streamtape.")
NegotiationError(env) ==
  PlainError(OrElse(env.msg, "Failed to get upload URL from Streamtape."))

\* an envelope check that lets every envelope through
InitRejectedNever(env) == FALSE

\* the envelope check without its result?.url half
InitRejectedStatusOnly(env) == env.status # 200

\* initResponse.data.status !== 200 || !initResponse.data.result?.url
InitRejected(env) == env.status # 200 \/ env.url # "present"

\* what the provider granted: an upload destination, or none
Granted(env) == IF env.status = 200 /\ env.url = "present" THEN "ok" ELSE "failed"

\* uploadResponse.data.status !== 200 || !uploadResponse.data.result?.id
UploadRejected(env) == env.status # 200 \/ env.id # "present"

\* ------------------------------------------------------------- requests
\* app.post("/api/upload", ...): a request arrives with its body still to come
Arrive(r) ==
  /\ pc[r] = "idle"
  /\ r \in active
  /\ \E mp \in MultipartOffered, ps \in PartsOffered, n \in LensOffered :
       /\ multipart' = [multipart EXCEPT ![r] = mp]
       /\ parts' = [parts EXCEPT ![r] = IF mp THEN ps ELSE <<>>]
       /\ fileLen' = [fileLen EXCEPT ![r] = IF mp THEN n ELSE 1]
       /\ pc' = [pc EXCEPT ![r] =
                   IF variant \in Multer THEN "multer"
                   ELSE IF mp THEN "parsing" ELSE "done"]
       /\ responses' =
            [responses EXCEPT ![r] =
               IF variant \in Streaming /\ ~mp THEN Append(@, BusboyErrorPage) ELSE @]
  /\ UNCHANGED <<variant, active, proxyVars, parserVars, flowVars, fileVars, unlinkVars, pending,
                 negVars, relayVars, errVars, envVars>>

\* the client goes away before its request is answered; no version listens
\* for "close" or "aborted" on req or res
ClientDisconnect(r) ==
  /\ pc[r] \in {"parsing", "negWait", "relayWait"}
  /\ connected[r]
  /\ connected' = [connected EXCEPT ![r] = FALSE]
  /\ discInRelay' = [discInRelay EXCEPT ![r] = (pc[r] = "relayWait")]
  /\ UNCHANGED <<variant, active, proxyVars, pc, inputVars, parserVars, flowVars, fileVars,
                 unlinkVars, pending, negVars, relayVars, errVars, fileErrored,
                 socketDestroyed, responses>>

\* the part busboy is in is wholly pushed (or there is none yet)
PartDone(r) == partIdx[r] = 0 \/ pushed[r] = fileLen[r]

\* busboy.on("file"): the header of the next part is parsed
FileEvent(r) ==
  /\ pc[r] = "parsing"
  /\ connected[r]
  /\ partIdx[r] < Len(parts[r])
  /\ PartDone(r)
  /\ partIdx' = [partIdx EXCEPT ![r] = @ + 1]
  /\ IF parts[r][partIdx[r] + 1] = "video"
       THEN /\ fileName' = [fileName EXCEPT ![r] = OrElse(ClientName(r), "uploaded_video")]
            /\ fileStream' = [fileStream EXCEPT ![r] = partIdx[r] + 1]
            /\ pushed' = [pushed EXCEPT ![r] = 0]
            /\ buffered' = [buffered EXCEPT ![r] = 0]
       ELSE \* file.resume(): the part is drained as it comes
            /\ pushed' = [pushed EXCEPT ![r] = fileLen[r]]
            /\ UNCHANGED <<fileName, fileStream, buffered>>
  /\ UNCHANGED <<variant, active, proxyVars, pc, inputVars, relayed, fileVars, unlinkVars, pending,
                 negVars, relayVars, errVars, envVars, responses>>

\* busboy pushes one more chunk of the videoFile part into its stream; the
\* stream takes chunks only while it holds less than the high-water mark, and
\* nothing reads it before the relay
ParseChunk(r) ==
  /\ pc[r] = "parsing"
  /\ connected[r]
  /\ partIdx[r] > 0
  /\ parts[r][partIdx[r]] = "video"
  /\ pushed[r] < fileLen[r]
  /\ buffered[r] < HighWaterMark
  /\ pushed' = [pushed EXCEPT ![r] = @ + 1]
  /\ buffered' = [buffered EXCEPT ![r] = @ + 1]
  /\ UNCHANGED <<variant, active, proxyVars, pc, inputVars, partIdx, fileStream, fileName, relayed,
                 fileVars, unlinkVars, pending, negVars, relayVars, errVars,
                 envVars, responses>>

\* file.on("error")
FileError(r) ==
  /\ variant \in Streaming
  /\ pc[r] \in {"parsing", "negWait", "relayWait"}
  /\ fileStream[r] # 0
  /\ ~fileErrored[r]
  /\ relayed[r] < fileLen[r]
  /\ fileErrored' = [fileErrored EXCEPT ![r] = TRUE]
  /\ responses' =
       [responses EXCEPT ![r] =
          IF HeadersSent(r) THEN @
          ELSE ResJson(r, Json(500, FALSE, <<"File stream error during upload.">>, NoData))]
  /\ UNCHANGED <<variant, active, proxyVars, pc, inputVars, parserVars, flowVars, fileVars,
                 unlinkVars, pending, negVars, relayVars, errVars, connected,
                 discInRelay, socketDestroyed>>

\* await axios.get(`${API_BASE_URL}/file/ul`, ...): the call is issued and the
\* handler suspended; the provider will answer it or stay silent
IssueNegotiation(r) ==
  /\ negCalls' = [negCalls EXCEPT ![r] = @ + 1]
  /\ \E p \in {"answering", "silent"} : pending' = [pending EXCEPT ![r] = p]
  /\ pc' = [pc EXCEPT ![r] = "negWait"]

\* busboy.on("finish"): the whole body has been written to the parser
Finish(r) ==
  /\ pc[r] = "parsing"
  /\ connected[r]
  /\ partIdx[r] = Len(parts[r])
  /\ PartDone(r)
  /\ IF fileStream[r] = 0 /\ ~HeadersSent(r)
       THEN /\ responses' =
                 [responses EXCEPT ![r] =
                    ResJson(r, Json(400, FALSE, <<"No file uploaded.">>, NoData))]
            /\ pc' = [pc EXCEPT ![r] = "done"]
            /\ UNCHANGED <<pending, negCalls>>
       ELSE /\ IssueNegotiation(r)
            /\ UNCHANGED responses
  /\ UNCHANGED <<variant, active, proxyVars, inputVars, parserVars, flowVars, fileVars, unlinkVars,
                 negResult, negEnvelope, relayVars, errVars, envVars>>

\* multer accepts one file, under videoFile
UnexpectedFile(ps) == ps \notin {<<>>, <<"video">>}

\* filename: Date.now() + "-" + Math.round(Math.random() * 1e9); two names can be
\* equal only if drawn in the same millisecond, so not once the other request
\* has run to its end
SuffixFree(r, s) == \A q \in Reqs \ {r} : tempFilePath[q] = s => pc[q] # "done"

\* upload.single("videoFile") and the handler up to its first await; multer
\* passes a body that is not multipart on unparsed, with req.file undefined
MulterUpload(r) ==
  /\ pc[r] = "multer"
  /\ \/ /\ UnexpectedFile(parts[r])
        /\ responses' = [responses EXCEPT ![r] = Append(@, DefaultErrorPage)]
        /\ pc' = [pc EXCEPT ![r] = "done"]
        /\ UNCHANGED <<fileName, fileVars, pending, negCalls>>
     \/ /\ parts[r] = <<>>
        /\ responses' =
             [responses EXCEPT ![r] =
                ResJson(r, Json(400, FALSE,
                                IF variant = "disk" THEN <<"No video file provided.">>
                                ELSE <<"No file uploaded.">>, NoData))]
        /\ pc' = [pc EXCEPT ![r] = "done"]
        /\ UNCHANGED <<fileName, fileVars, pending, negCalls>>
     \/ /\ parts[r] = <<"video">>
        /\ fileName' = [fileName EXCEPT ![r] = ClientName(r)]
        /\ IF variant = "disk"
             THEN \E s \in Suffixes :
                    /\ SuffixFree(r, s)
                    /\ tempFilePath' = [tempFilePath EXCEPT ![r] = s]
                    /\ disk' = [disk EXCEPT ![s] = ClientBytes(r)]
             ELSE UNCHANGED fileVars
        /\ IssueNegotiation(r)
        /\ UNCHANGED responses
  /\ UNCHANGED <<variant, active, proxyVars, inputVars, partIdx, pushed, fileStream, flowVars,
                 unlinkVars, negResult, negEnvelope, relayVars, errVars, envVars>>

\* fs.createReadStream fails on a path that is gone
EnoentError ==
  [code |-> "ENOENT", status |-> 0, dataMsg |-> "",
   message |-> <<"ENOENT: no such file or directory, open ", "/tmp/videoFile-">>,
   isCancel |-> FALSE]

\* fs.createReadStream fails on a file it cannot open
EmfileError ==
  [code |-> "EMFILE", status |-> 0, dataMsg |-> "",
   message |-> <<"EMFILE: too many open files, open ", "/tmp/videoFile-">>,
   isCancel |-> FALSE]

\* what form.append("file1", ...) is given to read: the stored part's stream,
\* a read stream on tempFilePath, or req.file.buffer
ByteSource(r) ==
  IF variant = "disk" THEN disk[tempFilePath[r]] ELSE ClientBytes(r)

\* the try block is left: finally { await fsPromises.unlink(tempFilePath) }
EndTry(r) ==
  /\ pc' = [pc EXCEPT ![r] = AfterTry(r)]
  /\ pending' = [pending EXCEPT ![r] = "none"]
  /\ unlinkAttempts' =
       [unlinkAttempts EXCEPT ![r] = IF AfterTry(r) = "unlinkWait" THEN @ + 1 ELSE @]

\* err is thrown inside the try block at step where, and caught
Throw(r, err, where) ==
  /\ caught' = [caught EXCEPT ![r] = err]
  /\ failedIn' = [failedIn EXCEPT ![r] = where]
  /\ responses' = [responses EXCEPT ![r] = AfterCatch(r, err)]
  /\ EndTry(r)

\* the contentType option of form.append("file1", ...): a fixed string in the
\* Busboy versions, req.file.mimetype || "application/octet-stream" with multer
ContentTypeSent(r) ==
  IF variant \in Streaming THEN "application/octet-stream"
  ELSE OrElse(ClientContentType(r), "application/octet-stream")

\* the relay posted a second time after the first call
IssueRelayTwice(r) ==
  /\ relayCalls' = [relayCalls EXCEPT ![r] = @ + 2]
  /\ relaySent' =
       [relaySent EXCEPT ![r] =
          [filename |-> fileName[r], contentType |-> ContentTypeSent(r),
           bytes |-> ByteSource(r), url |-> UrlFor(r)]]
  /\ relayOutcome' = [relayOutcome EXCEPT ![r] = "inflight"]
  /\ \E p \in {"answering", "silent"} : pending' = [pending EXCEPT ![r] = p]
  /\ pc' = [pc EXCEPT ![r] = "relayWait"]

\* await axios.post(uploadUrl, form, ...): the relay is issued
IssueRelay(r) ==
  /\ relayCalls' = [relayCalls EXCEPT ![r] = @ + 1]
  /\ relaySent' =
       [relaySent EXCEPT ![r] =
          [filename |-> fileName[r], contentType |-> ContentTypeSent(r),
           bytes |-> ByteSource(r), url |-> UrlFor(r)]]
  /\ relayOutcome' = [relayOutcome EXCEPT ![r] = "inflight"]
  /\ \E p \in {"answering", "silent"} : pending' = [pending EXCEPT ![r] = p]
  /\ pc' = [pc EXCEPT ![r] = "relayWait"]

\* the negotiation call settles: the handler checks the envelope and goes on
\* to the relay, or lands in its catch block
NegotiateReturn(r) ==
  /\ pc[r] = "negWait"
  /\ \/ /\ pending[r] = "silent"
        /\ NegotiationTimeout(variant) > 0
        /\ negResult' = [negResult EXCEPT ![r] = "failed"]
        /\ Throw(r, TimeoutError(NegotiationTimeout(variant)), "negotiation")
        /\ UNCHANGED <<relayVars, negEnvelope>>
     \/ /\ pending[r] = "answering"
        /\ \E err \in AxiosErrors :
             /\ negResult' = [negResult EXCEPT ![r] = "failed"]
             /\ Throw(r, err, "negotiation")
        /\ UNCHANGED <<relayVars, negEnvelope>>
     \/ /\ pending[r] = "answering"
        /\ \E env \in InitEnvelopes :
             /\ negEnvelope' = [negEnvelope EXCEPT ![r] = env]
             /\ IF InitRejected(env)
                  THEN /\ negResult' = [negResult EXCEPT ![r] = Granted(env)]
                       /\ Throw(r, NegotiationError(env), "negotiation")
                       /\ UNCHANGED relayVars
                  ELSE /\ negResult' = [negResult EXCEPT ![r] = Granted(env)]
                       /\ IssueRelay(r)
                       /\ UNCHANGED <<errVars, responses, unlinkAttempts>>
  /\ UNCHANGED <<variant, active, proxyVars, inputVars, parserVars, flowVars, fileVars, unlinkResult,
                 deleted, negCalls, envVars>>

\* the outbound request reads one chunk of the stored file stream
RelayConsume(r) ==
  /\ variant \in Streaming
  /\ pc[r] = "relayWait"
  /\ buffered[r] > 0
  /\ buffered' = [buffered EXCEPT ![r] = @ - 1]
  /\ relayed' = [relayed EXCEPT ![r] = @ + 1]
  /\ UNCHANGED <<variant, active, proxyVars, pc, inputVars, parserVars, fileVars, unlinkVars, pending,
                 negVars, relayVars, errVars, envVars, responses>>

\* the whole multipart body has been handed to the upload host
BodySent(r) == variant \in Streaming => buffered[r] = 0

\* result of the upload host for the relay of r: it echoes the name it was sent
UploadResult(r) ==
  [id |-> IdFor(r), name |-> relaySent[r].filename, url |-> DownloadUrlFor(r),
   size |-> SizeFor(r), content_type |-> ContentTypeFor(r), sha256 |-> Sha256For(r)]

\* the error of the read stream on tempFilePath, which the relay call rejects
\* with: the file is gone, or it is there and cannot be opened
ReadError(r) == IF relaySent[r].bytes = "" THEN EnoentError ELSE EmfileError

\* the relay call settles: success response, or the catch block
RelayReturn(r) ==
  /\ pc[r] = "relayWait"
  /\ \/ /\ pending[r] = "silent"
        /\ RelayTimeout(variant) > 0
        /\ RelayTimerFirst(variant) \/ socketDestroyed[r] \/ ~connected[r]
        /\ relayOutcome' = [relayOutcome EXCEPT ![r] = "failed"]
        /\ Throw(r, TimeoutError(RelayTimeout(variant)), "relay")
     \/ /\ pending[r] = "answering"
        /\ relaySent[r].bytes # ""
        /\ \E err \in AxiosErrors :
             /\ relayOutcome' = [relayOutcome EXCEPT ![r] = "failed"]
             /\ Throw(r, err, "relay")
     \/ /\ pending[r] = "answering"
        /\ variant = "disk"
        /\ relayOutcome' = [relayOutcome EXCEPT ![r] = "failed"]
        /\ Throw(r, ReadError(r), "relay")
     \/ /\ pending[r] = "answering"
        /\ relaySent[r].bytes # ""
        /\ BodySent(r)
        /\ \E env \in UploadEnvelopes :
             IF UploadRejected(env)
               THEN /\ relayOutcome' = [relayOutcome EXCEPT ![r] = "rejected"]
                    /\ Throw(r, PlainError(OrElse(env.msg,
                                 "Upload failed or no file ID returned from Streamtape.")),
                             "relay")
               ELSE /\ relayOutcome' = [relayOutcome EXCEPT ![r] = "stored"]
                    /\ IF HeadersSent(r)
                         THEN Throw(r, HeadersSentError, "respond")
                         ELSE /\ UNCHANGED errVars
                              /\ responses' =
                                   [responses EXCEPT ![r] =
                                      ResJson(r, SuccessResponseOf(variant,
                                                                   UploadResult(r)))]
                              /\ EndTry(r)
  /\ UNCHANGED <<variant, active, proxyVars, inputVars, parserVars, flowVars, fileVars, unlinkResult,
                 deleted, negVars, relayCalls, relaySent, envVars>>

\* the unlink awaited without its .catch: a failure rejects the handler
UnlinkReturnUncaught(r) ==
  /\ pc[r] = "unlinkWait"
  /\ \E ok \in BOOLEAN :
       /\ ok => disk[tempFilePath[r]] # ""
       /\ disk' = [disk EXCEPT ![tempFilePath[r]] = IF ok THEN "" ELSE @]
       /\ unlinkResult' = [unlinkResult EXCEPT ![r] = IF ok THEN "deleted" ELSE "failed"]
       /\ deleted' = [deleted EXCEPT ![r] = IF ok THEN disk[tempFilePath[r]] ELSE @]
       /\ pc' = [pc EXCEPT ![r] = IF ok THEN "done" ELSE "rejected"]
  /\ UNCHANGED <<variant, active, proxyVars, inputVars, parserVars, flowVars, tempFilePath,
                 unlinkAttempts, pending, negVars, relayVars, errVars, envVars,
                 responses>>

\* fsPromises.unlink(tempFilePath) settles: .then logs, .catch logs
UnlinkReturn(r) ==
  /\ pc[r] = "unlinkWait"
  /\ \E ok \in BOOLEAN :
       /\ ok => disk[tempFilePath[r]] # ""
       /\ disk' = [disk EXCEPT ![tempFilePath[r]] = IF ok THEN "" ELSE @]
       /\ unlinkResult' = [unlinkResult EXCEPT ![r] = IF ok THEN "deleted" ELSE "failed"]
       /\ deleted' = [deleted EXCEPT ![r] = IF ok THEN disk[tempFilePath[r]] ELSE @]
  /\ pc' = [pc EXCEPT ![r] = "done"]
  /\ UNCHANGED <<variant, active, proxyVars, inputVars, parserVars, flowVars, tempFilePath,
                 unlinkAttempts, pending, negVars, relayVars, errVars, envVars,
                 responses>>

\* the client's socket has been idle for server.timeout while the handler
\* waits for a silent upload host: no "timeout" listener is set, so the server
\* destroys the socket
ServerSocketTimeout(r) ==
  /\ pc[r] = "relayWait"
  /\ pending[r] = "silent"
  /\ connected[r]
  /\ ~socketDestroyed[r]
  /\ ~RelayTimerFirst(variant)
  /\ socketDestroyed' = [socketDestroyed EXCEPT ![r] = TRUE]
  /\ UNCHANGED <<variant, active, proxyVars, pc, inputVars, parserVars, flowVars, fileVars,
                 unlinkVars, pending, negVars, relayVars, errVars, connected,
                 discInRelay, fileErrored, responses>>

\* a step of the handler of r or of the streams, calls and timers it waits for
HandlerStep(r) ==
  \/ ServerSocketTimeout(r)
  \/ FileEvent(r)
  \/ ParseChunk(r)
  \/ Finish(r)
  \/ MulterUpload(r)
  \/ NegotiateReturn(r)
  \/ RelayConsume(r)
  \/ RelayReturn(r)
  \/ UnlinkReturn(r)

Next ==
  \/ \E r \in Reqs : Arrive(r)
  \/ \E r \in Reqs : ClientDisconnect(r)
  \/ \E r \in Reqs : FileError(r)
  \/ \E r \in Reqs : FileEvent(r)
  \/ \E r \in Reqs : ParseChunk(r)
  \/ \E r \in Reqs : Finish(r)
  \/ \E r \in Reqs : MulterUpload(r)
  \/ \E r \in Reqs : NegotiateReturn(r)
  \/ \E r \in Reqs : RelayConsume(r)
  \/ \E r \in Reqs : RelayReturn(r)
  \/ \E r \in Reqs : ServerSocketTimeout(r)
  \/ \E r \in Reqs : UnlinkReturn(r)

Spec == Init /\ [][Next]_vars

ConcurrentSpec == InitConcurrent /\ [][Next]_vars

\* the event loop runs every callback that is ready, and every stream and
\* network step that can happen does
FairSpec == Spec /\ \A r \in Reqs : WF_vars(HandlerStep(r))

\* --------------------------------------------------------- proxy routes
\* the routes that pass one call on to the provider; the remote-upload routes
\* exist in the disk version only
VideoRoutes == {"videos", "thumbnail", "download-ticket", "download-link"}
RemoteRoutes == {"remote-upload", "remote-upload-status"}
RoutesOf(v) == IF v = "disk" THEN VideoRoutes \cup RemoteRoutes ELSE VideoRoutes

\* response.data of the provider: status (0 when it has none), msg, and result:
\* "absent" (null, or an empty string), "empty" (an object without the files,
\* url or entry asked for), "full"
ProxyStatuses == {200, 403, 0}
ProxyEnvelopes ==
  [status : ProxyStatuses, msg : ProviderMsgs, result : {"absent", "empty", "full"}]

\* the entry of the remote upload in the result of remotedl/status
StatusEntry ==
  [status |-> "downloading", bytes_loaded |-> "1024", bytes_total |-> "4096",
   remoteurl |-> "https://remote/file", url |-> "https://streamtape.com/v/x"]

\* res.status(status).json({success, message, ...data})
ProxyJson(status, success, message, data) ==
  [status |-> status, success |-> success, message |-> message, data |-> data]

NoProxyData == [none |-> ""]

\* a route that checks nothing before it calls the provider
ParamMissingNever(ep, p) == FALSE

\* if (!ticket) and if (!url): the routes that validate their input
ParamMissing(ep, p) == ep \in {"download-link", "remote-upload"} /\ ~p

\* the 400 of the validating routes
ValidationResponse(ep) ==
  ProxyJson(400, FALSE,
            IF ep = "download-link" THEN <<"Download ticket is required.">>
            ELSE <<"Remote URL is required.">>, NoProxyData)

\* response.data.result as a condition: the thumbnail's result is a string,
\* the other results are objects
ResultTruthy(ep, env) ==
  IF ep = "thumbnail" THEN env.result = "full" ELSE env.result # "absent"

\* the condition of the success branch of each route
Usable(ep, env) ==
  /\ env.status = 200
  /\ ResultTruthy(ep, env)
  /\ ep \in {"videos", "download-link", "remote-upload-status"} => env.result = "full"

\* a status route without its not-found branch
EntryMissingNever(ep, env) == FALSE

\* else if (status === 200 && result && !result[id])
EntryMissing(ep, env) ==
  /\ ep = "remote-upload-status"
  /\ env.status = 200
  /\ env.result = "empty"

\* the message of the else branch when the provider sent none
DefaultMessage(ep) ==
  CASE ep = "videos" -> "Failed to fetch videos."
    [] ep = "thumbnail" -> "Failed to get thumbnail."
    [] ep = "download-ticket" -> "Failed to get download ticket."
    [] ep = "download-link" -> "Failed to get download link."
    [] ep = "remote-upload" -> "Failed to initiate remote upload."
    [] OTHER -> "Failed to retrieve remote upload status."

\* a field of the provider's result: undefined when the result lacks it
Field(env, value) == IF env.result = "full" THEN value ELSE "undefined"

\* the body of the success branch of each route
SuccessData(ep, env) ==
  CASE ep = "videos" -> [videos |-> "converted files"]
    [] ep = "thumbnail" -> [thumbnailUrl |-> "https://thumb/x"]
    [] ep = "download-ticket" ->
         [ticket |-> Field(env, "ticket"), wait_time |-> Field(env, "5")]
    [] ep = "download-link" -> [downloadUrl |-> "https://dl/x", filename |-> "x.mp4"]
    [] ep = "remote-upload" ->
         [remoteUploadId |-> Field(env, "remote id"),
          folderId |-> Field(env, "folder id")]
    [] OTHER ->
         [status |-> StatusEntry.status, bytesLoaded |-> StatusEntry.bytes_loaded,
          bytesTotal |-> StatusEntry.bytes_total, remoteUrl |-> StatusEntry.remoteurl,
          streamtapeUrl |-> StatusEntry.url]

\* what the try block of a route answers to the provider's envelope
ProxyRespond(ep, env) ==
  IF Usable(ep, env)
    THEN ProxyJson(200, TRUE,
                   IF ep = "remote-upload"
                     THEN <<"Remote upload initiated successfully.">> ELSE <<>>,
                   SuccessData(ep, env))
    ELSE IF EntryMissing(ep, env)
      THEN ProxyJson(404, FALSE,
                     <<"Remote upload ID not found or status not yet available.">>,
                     NoProxyData)
      ELSE ProxyJson(IF env.status = 0 THEN 500 ELSE env.status, FALSE,
                     <<OrElse(env.msg, DefaultMessage(ep))>>, NoProxyData)

\* what the catch block of a route answers
ProxyCatch(ep, err) ==
  ProxyJson(500, FALSE,
            CASE ep = "videos" -> <<"Server error while fetching videos.">>
              [] ep = "thumbnail" -> <<"Server error while fetching thumbnail.">>
              [] ep = "download-ticket" ->
                   <<"Server error while fetching download ticket.">>
              [] ep = "download-link" ->
                   <<"Server error while fetching download link.">>
              [] ep = "remote-upload" ->
                   <<"Server error initiating remote upload: ">> \o err.message
              [] OTHER ->
                   <<"Server error checking remote upload status: ">> \o err.message,
            NoProxyData)

uploadVars ==
  <<variant, active, pc, inputVars, parserVars, flowVars, fileVars, unlinkVars,
    pending, negVars, relayVars, errVars, envVars, responses>>

\* a client calls a proxy route: the handler validates its input and awaits
\* axios.get on the provider
ProxyArrive ==
  /\ proxyPc = "idle"
  /\ \E ep \in RoutesOf(variant), p \in BOOLEAN :
       /\ ep \notin {"download-link", "remote-upload"} => p
       /\ endpoint' = ep
       /\ param' = p
       /\ IF ParamMissing(ep, p)
            THEN /\ proxyResponses' = Append(proxyResponses, ValidationResponse(ep))
                 /\ proxyPc' = "done"
                 /\ UNCHANGED proxyCalls
            ELSE /\ proxyCalls' = proxyCalls + 1
                 /\ proxyPc' = "wait"
                 /\ UNCHANGED proxyResponses
  /\ UNCHANGED <<uploadVars, envelope, proxyError>>

\* the provider's answer arrives, or the call is rejected
ProxyReturn ==
  /\ proxyPc = "wait"
  /\ \/ \E env \in ProxyEnvelopes :
          /\ envelope' = env
          /\ proxyResponses' = Append(proxyResponses, ProxyRespond(endpoint, env))
          /\ UNCHANGED proxyError
     \/ \E err \in AxiosErrors :
          /\ proxyError' = err
          /\ proxyResponses' = Append(proxyResponses, ProxyCatch(endpoint, err))
          /\ UNCHANGED envelope
  /\ proxyPc' = "done"
  /\ UNCHANGED <<uploadVars, endpoint, param, proxyCalls>>

ProxyNext == ProxyArrive \/ ProxyReturn

ProxySpec == InitProxy /\ [][ProxyNext]_vars

\* =============================================================== claims
HasVideo(ps) == \E i \in 1..Len(ps) : ps[i] = "video"
Answered(r) == responses[r] # <<>>
Completed(r) == pc[r] = "done"

C2_EventuallyResponded ==
  \A r \in Reqs :
    [](variant \in Streaming /\ pc[r] # "idle"
         => <>(Answered(r) \/ ~connected[r]))

C4_NoRelayAfterFailedNegotiation ==
  \A r \in Reqs :
    negResult[r] = "failed" => (relayCalls[r] = 0 /\ relayOutcome[r] = "none")

\* C4 witness: an envelope with status 200 and no result.url ended the request
C4_Witness ==
  \E r \in Reqs :
    /\ negResult[r] = "failed" /\ Completed(r) /\ failedIn[r] = "negotiation"
    /\ caught[r] = PlainError("Failed to get upload URL from Streamtape.")

\* C5: a request with no file part under videoFile is answered 400 with
\* success:false and causes no negotiation and no relay call.
C5_NoFileIs400 ==
  \A r \in Reqs :
    (Completed(r) /\ ~HasVideo(parts[r])) =>
      /\ Len(responses[r]) = 1
      /\ responses[r][1].status = 400 /\ ~responses[r][1].success
      /\ negCalls[r] = 0 /\ relayCalls[r] = 0

\* the relay of r ended by a timeout: the axios timeout fired, or the upload
\* host signalled a timeout itself (504 Gateway Timeout)
RelayTimedOut(r) ==
  /\ failedIn[r] = "relay"
  /\ caught[r].code = "ECONNABORTED" \/ caught[r].status = 504

\* C6: in every version a relay that times out is answered 504, never 500.
C6_RelayTimeoutIs504 ==
  \A r \in Reqs :
    RelayTimedOut(r) => (Answered(r) /\ responses[r][1].status = 504)

\* C7: in every version, if the provider never answers the negotiation call
\* the client, if it stays connected, eventually receives a 504 response
\* (unless the file stream error callback has answered the request before).
C7_SilentNegotiationAnswered504 ==
  \A r \in Reqs :
    [](pc[r] = "negWait" /\ pending[r] = "silent"
         => <>(\/ Answered(r) /\ (responses[r][1].status = 504 \/ fileErrored[r])
               \/ ~connected[r]))

\* C8: within one request at most one negotiation call and at most one relay
\* call are issued, and a failure of either ends the try block with one
\* response instead of a retry.
C8_EachStepAtMostOnce ==
  \A r \in Reqs :
    /\ negCalls[r] <= 1
    /\ relayCalls[r] <= 1
    /\ failedIn[r] \in {"negotiation", "relay"} =>
         (pc[r] \in {"unlinkWait", "done"} /\ Len(responses[r]) = 1)

\* C8 witness: the relay failed on a network error after one call of each kind
C8_Witness ==
  \E r \in Reqs :
    /\ failedIn[r] = "relay" /\ caught[r] = NetworkError
    /\ negCalls[r] = 1 /\ relayCalls[r] = 1 /\ Completed(r)

\* C9: if the client disconnects while the relay is in progress, the relay is
\* aborted (the provider does not go on to store the file) and, when a
\* temporary file exists, its deletion is still attempted.
C9_DisconnectAbortsRelay ==
  \A r \in Reqs :
    discInRelay[r] =>
      /\ relayOutcome[r] # "stored"
      /\ (Completed(r) /\ tempFilePath[r] # 0) => unlinkAttempts[r] = 1

\* C10: with two concurrent uploads of different files, each relay sends its own
\* request's file name, bytes and upload url, and each success response
\* carries the identifier and name of its own relay.
C10_NoInterference ==
  \A r \in Reqs :
    /\ relayCalls[r] > 0 =>
         /\ relaySent[r].filename = ClientName(r)
         /\ relaySent[r].bytes = ClientBytes(r)
         /\ relaySent[r].url = UrlFor(r)
    /\ (Answered(r) /\ responses[r][1].success) =>
         /\ responses[r][1].data.fileId = IdFor(r)
         /\ responses[r][1].data.fileName = ClientName(r)


\* the handler of r is running or waiting
InFlight(r) == pc[r] \notin {"idle", "done"}

\* C11: in the disk version no temporary file path belongs to two requests in
\* flight, and the unlink of a request removes only the file that holds the
\* bytes that request stored
C11_TempPathOwnedByOneRequest ==
  \A r \in Reqs :
    /\ \A q \in Reqs \ {r} :
         (InFlight(r) /\ InFlight(q) /\ tempFilePath[r] # 0)
           => tempFilePath[q] # tempFilePath[r]
    /\ deleted[r] \in {"", ClientBytes(r)}


C13_ProviderFailureIs5xx ==
  \A r \in Reqs :
    Answered(r) =>
      /\ failedIn[r] \in {"negotiation", "relay"}
           => responses[r][1].status \in 500..599
      /\ responses[r][1].status \in 400..499 => ~HasVideo(parts[r])


\* C14: every failure response is a JSON envelope with success false and a
\* message that is not empty, whichever step of the request raised the failure
C14_FailureIsJsonEnvelope ==
  \A r \in Reqs :
    \A i \in 1..Len(responses[r]) :
      ~responses[r][i].success
        => /\ responses[r][i].kind = "json"
           /\ responses[r][i].message # <<>>


\* text of a message that shows the inside of the server: a path under /tmp,
\* a stack trace
InternalDetail == {"/tmp/videoFile-", "stack"}

\* C15: the message of the response to a failed negotiation, source read or
\* relay holds no local path and no stack trace
C15_NoInternalDetail ==
  \A r \in Reqs :
    (Answered(r) /\ failedIn[r] \in {"negotiation", "relay"})
      => \A i \in 1..Len(responses[r][1].message) :
           responses[r][1].message[i] \notin InternalDetail


\* C16: when the unlink of the temporary file fails, the one response of the
\* request stays as it was sent, nothing is thrown or caught, and the handler
\* ends
C16_UnlinkFailureOnlyLogged ==
  [][\A r \in Reqs :
       (unlinkResult[r] = "none" /\ unlinkResult'[r] = "failed")
         => /\ Len(responses[r]) = 1
            /\ responses'[r] = responses[r]
            /\ caught'[r] = caught[r]
            /\ failedIn'[r] = failedIn[r]
            /\ unlinkAttempts'[r] = 1
            /\ pc'[r] = "done"]_vars

\* a disk upload has ended with its file left in /tmp by a failed unlink
C16_Witness ==
  \E r \in Reqs :
    /\ Completed(r)
    /\ unlinkResult[r] = "failed"
    /\ disk[tempFilePath[r]] = ClientBytes(r)
    /\ Len(responses[r]) = 1


\* C17: a success response goes out only for a file the provider stored; it
\* is a 200 with success true whose data are the provider's id, the name the
\* provider echoes, "https://streamtape.com/e/" followed by the id, and the
\* provider's url, size, content_type and sha256; and a stored file is
\* answered so unless the file stream's error callback answered before
C17_SuccessResponseFields ==
  \A r \in Reqs :
    /\ (Answered(r) /\ responses[r][1].success)
         => /\ relayOutcome[r] = "stored"
            /\ responses[r][1].status = 200
            /\ responses[r][1].kind = "json"
            /\ responses[r][1].data =
                 [fileId |-> IdFor(r), fileName |-> relaySent[r].filename,
                  streamUrl |-> <<"https://streamtape.com/e/", IdFor(r)>>,
                  downloadUrl |-> DownloadUrlFor(r), size |-> SizeFor(r),
                  contentType |-> ContentTypeFor(r), sha256 |-> Sha256For(r)]
    /\ (relayOutcome[r] = "stored" /\ ~fileErrored[r])
         => (Len(responses[r]) = 1 /\ responses[r][1].success)

\* the streaming version has answered a stored file with its success response
C17_Witness ==
  \E r \in Reqs :
    /\ variant = "stream"
    /\ Completed(r)
    /\ relayOutcome[r] = "stored"
    /\ Len(responses[r]) = 1
    /\ responses[r][1].success
    /\ responses[r][1].data.fileId = IdFor(r)

\* C18: for the same client file and the same provider result the disk and
\* in-memory versions answer what the streaming version answers: status,
\* message and data are those of the streaming version's success response
C18_SameSuccessResponse ==
  \A r \in Reqs :
    (Answered(r) /\ responses[r][1].success)
      => responses[r][1] =
           SuccessResponse([id |-> IdFor(r), name |-> ClientName(r),
                            url |-> DownloadUrlFor(r), size |-> SizeFor(r),
                            content_type |-> ContentTypeFor(r),
                            sha256 |-> Sha256For(r)])

\* the disk version has answered a stored file with its success response
C18_Witness ==
  \E r \in Reqs :
    /\ variant = "disk"
    /\ relayOutcome[r] = "stored"
    /\ Len(responses[r]) = 1
    /\ responses[r][1].success
    /\ responses[r][1].data.sha256 = Sha256For(r)


\* C19: in the streaming versions the chunks of the file held in memory never
\* exceed the buffer limit, and a file of more than one chunk is never held
\* whole while the relay has not started
C19_RelayConsumesWhileArriving ==
  \A r \in Reqs :
    variant \in Streaming
      => /\ buffered[r] <= HighWaterMark
         /\ (fileStream[r] # 0 /\ fileLen[r] > 1 /\ relayCalls[r] = 0)
              => buffered[r] < fileLen[r]

\* C20: a multipart request with a file part under another name is answered as
\* the same request without that part: it gets no error page, it is
\* negotiated for if it has a videoFile part, and it is a 400 if it has none
C20_OtherPartsDiscarded ==
  \A r \in Reqs :
    (Completed(r) /\ \E i \in 1..Len(parts[r]) : parts[r][i] = "other")
      => /\ \A i \in 1..Len(responses[r]) : responses[r][i].kind = "json"
         /\ HasVideo(parts[r]) => negCalls[r] = 1
         /\ ~HasVideo(parts[r])
              => (Len(responses[r]) = 1 /\ responses[r][1].status = 400)


\* C21: a download-link call without a ticket and a remote-upload call without
\* a url are answered 400 with success false, and no call to the provider is
\* issued for them
C21_InvalidRejectedBeforeUpstream ==
  (proxyPc # "idle" /\ endpoint \in {"download-link", "remote-upload"} /\ ~param)
    => /\ proxyPc = "done"
       /\ proxyCalls = 0
       /\ Len(proxyResponses) = 1
       /\ proxyResponses[1].status = 400
       /\ ~proxyResponses[1].success

\* a remote-upload call without a url has been answered
C21_Witness ==
  /\ endpoint = "remote-upload"
  /\ ~param
  /\ proxyPc = "done"
  /\ proxyCalls = 0
  /\ proxyResponses = <<ValidationResponse("remote-upload")>>


\* the text part stands somewhere in the message msg
Carries(msg, part) ==
  \E k \in 0..(Len(msg) - Len(part)) : SubSeq(msg, k + 1, k + Len(part)) = part

EnvelopeRejected(r) ==
  negEnvelope[r] # NoInitEnvelope /\ negResult[r] = "failed"

\* C23: when the negotiation returns an envelope whose status is not 200 or
\* that has no result.url, the request is answered with a failure whose
\* message carries the provider's msg if there is one and the fixed text if
\* there is none, and no relay is issued
C23_NegotiationMessageCarried ==
  \A r \in Reqs :
    (EnvelopeRejected(r) /\ ~fileErrored[r])
      => /\ negEnvelope[r].status # 200 \/ negEnvelope[r].url # "present"
         /\ relayCalls[r] = 0
         /\ Len(responses[r]) = 1
         /\ ~responses[r][1].success
         /\ Carries(responses[r][1].message,
                    IF negEnvelope[r].msg # ""
                      THEN <<negEnvelope[r].msg>>
                      ELSE <<"Failed to get upload URL from Streamtape.">>)

\* a negotiation refused with "quota exceeded" has been answered with that text
C23_Witness ==
  \E r \in Reqs :
    /\ EnvelopeRejected(r)
    /\ negEnvelope[r].msg = "quota exceeded"
    /\ Len(responses[r]) = 1
    /\ Carries(responses[r][1].message, <<"quota exceeded">>)


\* C24: when the provider's status result has no entry for the id asked for,
\* remote-upload-status answers 404 with success false; when it has one, the
\* answer is a success whose status, bytesLoaded, bytesTotal, remoteUrl and
\* streamtapeUrl are the entry's status, bytes_loaded, bytes_total, remoteurl
\* and url
C24_StatusLookup ==
  (endpoint = "remote-upload-status" /\ proxyPc = "done" /\ envelope.status = 200)
    => /\ Len(proxyResponses) = 1
       /\ envelope.result = "empty"
            => (proxyResponses[1].status = 404 /\ ~proxyResponses[1].success)
       /\ envelope.result = "full"
            => /\ proxyResponses[1].status = 200
               /\ proxyResponses[1].success
               /\ proxyResponses[1].data =
                    [status |-> "downloading", bytesLoaded |-> "1024",
                     bytesTotal |-> "4096", remoteUrl |-> "https://remote/file",
                     streamtapeUrl |-> "https://streamtape.com/v/x"]

\* a status call for an id the provider does not list has been answered 404
C24_Witness ==
  /\ endpoint = "remote-upload-status"
  /\ proxyPc = "done"
  /\ envelope.status = 200
  /\ envelope.result = "empty"
  /\ Len(proxyResponses) = 1
  /\ proxyResponses[1].status = 404


\* the byte source of r is there: the part's stream is stored and the body is
\* parsed to its end, the file is in /tmp, or the buffer is in req.file
Materialized(r) ==
  CASE variant \in Streaming -> fileStream[r] # 0 /\ partIdx[r] = Len(parts[r])
    [] variant = "disk" -> tempFilePath[r] # 0
    [] OTHER -> parts[r] = <<"video">>

\* C25: in one upload the negotiation is issued only with the byte source
\* there, the relay only once the negotiation has granted a destination, the
\* handler's response only once the relay (if one was issued) has settled, and
\* the unlink only once the response is out
C25_StepsSequential ==
  \A r \in Reqs :
    /\ negCalls[r] > 0 => Materialized(r)
    /\ relayCalls[r] > 0 => (negResult[r] = "ok" /\ pc[r] # "negWait")
    /\ pc[r] = "negWait" => (relayCalls[r] = 0 /\ unlinkAttempts[r] = 0)
    /\ (Answered(r) /\ ~fileErrored[r] /\ relayCalls[r] > 0)
         => relayOutcome[r] \in {"stored", "rejected", "failed"}
    /\ pc[r] = "relayWait" => (fileErrored[r] \/ ~Answered(r))
    /\ unlinkAttempts[r] > 0 => (Answered(r) /\ pc[r] \in {"unlinkWait", "done"})

\* a disk upload went through all its steps: negotiated, relayed, answered,
\* and its unlink is issued
C25_Witness ==
  \E r \in Reqs :
    /\ variant = "disk"
    /\ negResult[r] = "ok"
    /\ relayOutcome[r] = "stored"
    /\ Len(responses[r]) = 1
    /\ responses[r][1].success
    /\ unlinkAttempts[r] = 1
    /\ pc[r] = "unlinkWait"


\* C26: a request with two file parts under videoFile that has run to its end
\* was answered by the handler, not by an error page, and one of the two
\* parts was taken as the byte source and negotiated for
C26_OneOfManyAccepted ==
  \A r \in Reqs :
    (Completed(r) /\ parts[r] = <<"video", "video">>)
      => /\ \A i \in 1..Len(responses[r]) : responses[r][i].kind = "json"
         /\ negCalls[r] = 1
         /\ negResult[r] = "ok" => relayCalls[r] = 1


\* C27: in every version the relay sends the upload host the file name and
\* the content type the client declared for its videoFile part
C27_MetadataForwarded ==
  \A r \in Reqs :
    relayCalls[r] > 0
      => /\ relaySent[r].filename = ClientName(r)
         /\ relaySent[r].contentType = ClientContentType(r)


C29_NoFailureWith2xx ==
  \A i \in 1..Len(proxyResponses) :
    ~proxyResponses[i].success => proxyResponses[i].status \notin 200..299


\* C30: when the relay has timed out and the handler has answered 504, the
\* relay's timeout is no longer than the server's socket timeout and the
\* socket of a client that is still there has not been destroyed by the server
C30_RelayTimeoutBeforeSocketTimeout ==
  \A r \in Reqs :
    (failedIn[r] = "relay" /\ caught[r].code = "ECONNABORTED" /\ Answered(r)
       /\ ServerTimeout(variant) > 0 /\ connected[r])
      => /\ RelayTimeout(variant) <= ServerTimeout(variant)
         /\ ~socketDestroyed[r]

====
